---- MODULE Spec2Model ----
(***************************************************************************)
(* Weighted log distributor: the dispatch engine (pkg/distributor) and the *)
(* analyzer pool (pkg/analyzer), with the facade's registration handler.   *)
(*                                                                         *)
(* Atomicity.  A critical section of the metrics mutex or of the pool      *)
(* mutex, and a channel operation, is one step.  Everything a goroutine    *)
(* does between two such operations is local and is folded into the step   *)
(* that follows it.  An outbound HTTP call is one step whose outcome is    *)
(* chosen by the environment; the SetAnalyzerActive call a health probe    *)
(* makes after its GET is a step of its own.                               *)
(*                                                                         *)
(* Weights are positive integers (units of the smallest weight).  A draw   *)
(* r = rand.Float64() * totalWeight is kept in units of 1/Scale, so that   *)
(* both the draws that fall on a cumulative weight and those that fall     *)
(* strictly between two of them are present.                               *)
(***************************************************************************)
EXTENDS Integers, Sequences, FiniteSets, TLC

\* ---------------------------------------------------------------- bounds
QueueSize  == 1     \* queue-size: capacity of workQueue and of retryQueue
MaxWorkers == 2     \* workers: number of worker goroutines
MaxRetries == 2     \* max-retries
NumPackets == 2     \* number of EnqueuePacket calls
MaxAlloc   == 2     \* number of AddAnalyzer calls
MaxWeight  == 2     \* largest weight a registration request carries
MaxProbes  == 1     \* number of health-check rounds
MaxPool    == 3     \* largest pool registered through AddAnalyzer directly

Scale == 2

IDs     == {"A", "B"}
Pacer   == 0
NoPkt   == 0
NoSel   == 0
FromProducer == -1   \* a retryCount attribute decoded from the POST body
NoID    == ""
NoURL   == ""
URLs    == {"http://a", NoURL}

VARIABLES
  entries,      \* the Analyzer objects ever allocated; a pointer is an index
  analyzers,    \* AnalyzerPool.analyzers: sequence of pointers
  totalWeight,  \* AnalyzerPool.totalWeight
  probes,       \* checkAnalyzerHealth goroutines in flight: pointer, response
  rounds,       \* health-check rounds run so far
  prober,       \* position of StartHealthCheck
  workQueue,    \* LogDistributor.workQueue
  retryQueue,   \* LogDistributor.retryQueue
  retryCount,   \* packet.Metadata["retryCount"], 0 when absent
  task,         \* retryWorker (0) and the workers: position and locals
  enq,          \* the EnqueuePacket call of each packet
  resp,         \* the status handleLogPacket answered each packet's POST with
  mutex,        \* holders of the pool mutex and of the metrics mutex
  metrics,      \* DistributionMetrics
  tick,         \* ticker.C of the retryWorker holds a tick
  started,      \* Start has run
  shutdown,     \* shutdownCh is closed
  ctxDone,      \* the context passed to Start is cancelled
  stop,         \* position of Stop
  hist          \* history, per packet: what the engine did with it

vars == <<entries, analyzers, totalWeight, probes, rounds, prober, workQueue, retryQueue,
          retryCount, task, enq, resp, mutex, metrics, tick, started, shutdown, ctxDone,
          stop, hist>>

poolVars   == <<entries, analyzers, totalWeight>>
engineVars == <<workQueue, retryQueue, retryCount, task, enq, resp, metrics, tick,
                started, shutdown, ctxDone, stop, hist>>

\* the packets offered to the engine, its tasks, and its workers
Packets == DOMAIN enq
Tasks   == DOMAIN task
Workers == DOMAIN task \ {Pacer}

\* both mutexes free; a holder is [who, mode], mode "r" or "w"
NoLocks == [pool |-> {}, metrics |-> {}]

\* ------------------------------------------------------------ helpers
Range(s) == {s[i] : i \in 1..Len(s)}

Min(S) == CHOOSE x \in S : \A y \in S : x <= y

RECURSIVE SumSeq(_)
SumSeq(s) == IF s = <<>> THEN 0 ELSE Head(s) + SumSeq(Tail(s))

RECURSIVE SumSet(_, _)
SumSet(S, f) ==
  IF S = {} THEN 0
  ELSE LET x == CHOOSE y \in S : TRUE IN f[x] + SumSet(S \ {x}, f)

\* ------------------------------------------------------- analyzer pool
Analyzer(id, weight) == [ID |-> id, Weight |-> weight, Active |-> TRUE]

\* recalculateTotalWeight over a list l of pointers into the objects e
RECURSIVE recalculateTotalWeight(_, _)
recalculateTotalWeight(e, l) ==
  IF l = <<>> THEN 0
  ELSE (IF e[Head(l)].Active THEN e[Head(l)].Weight ELSE 0)
       + recalculateTotalWeight(e, Tail(l))

\* mutant of GetActiveAnalyzers: the Active flag is not tested
GetAllAnalyzers == analyzers

\* GetActiveAnalyzers: the pointers of the active entries, in list order
GetActiveAnalyzers == SelectSeq(analyzers, LAMBDA p : entries[p].Active)

\* index of the first entry of the list whose ID is id, 0 when there is none
FirstMatch(id) ==
  LET m == {i \in 1..Len(analyzers) : entries[analyzers[i]].ID = id}
  IN  IF m = {} THEN 0 ELSE Min(m)

\* the objects after SetAnalyzerActive(id, active)
SetActiveEntries(id, active) ==
  LET i == FirstMatch(id)
  IN  IF i = 0 THEN entries
      ELSE [entries EXCEPT ![analyzers[i]].Active = active]

\* SetAnalyzerActive(id, active): one critical section of the pool mutex
SetAnalyzerActive(id, active) ==
  /\ entries' = SetActiveEntries(id, active)
  /\ totalWeight' = recalculateTotalWeight(entries', analyzers)
  /\ UNCHANGED analyzers

\* the list after AddAnalyzer appended the pointer p
AddedList(p) == Append(analyzers, p)

\* AddAnalyzer(id, url, weight)
AddAnalyzer(id, weight) ==
  /\ entries' = Append(entries, Analyzer(id, weight))
  /\ analyzers' = AddedList(Len(entries) + 1)
  /\ totalWeight' = recalculateTotalWeight(entries', analyzers')

\* mutant of RemovedList: the last element is moved into the gap
RemovedListSwap(i) ==
  [j \in 1..(Len(analyzers) - 1) |->
     IF j = i THEN analyzers[Len(analyzers)] ELSE analyzers[j]]

\* the list after RemoveAnalyzer removed its i-th element
RemovedList(i) ==
  SubSeq(analyzers, 1, i - 1) \o SubSeq(analyzers, i + 1, Len(analyzers))

\* mutant of RemoveRecalc: the total is not recalculated
RemoveNoRecalc(l) == totalWeight

\* totalWeight after RemoveAnalyzer found and removed an entry
RemoveRecalc(l) == recalculateTotalWeight(entries, l)

\* RemoveAnalyzer(id)
RemoveAnalyzer(id) ==
  LET i == FirstMatch(id)
  IN  /\ analyzers' = IF i = 0 THEN analyzers ELSE RemovedList(i)
      /\ totalWeight' = IF i = 0 THEN totalWeight ELSE RemoveRecalc(analyzers')
      /\ UNCHANGED entries

\* mutant of handleAddAnalyzerStatus: the weight is not validated
handleAddAnalyzerStatusAnyWeight(decoded, id, url, weight) ==
  IF ~decoded THEN "400"
  ELSE IF id = NoID \/ url = NoURL THEN "400"
  ELSE "201"

\* handleAddAnalyzer, the status it answers with: 400 when the body does not
\* decode and when a required field is missing or the weight is not positive
handleAddAnalyzerStatus(decoded, id, url, weight) ==
  IF ~decoded THEN "400"
  ELSE IF id = NoID \/ url = NoURL \/ weight <= 0 THEN "400"
  ELSE "201"

\* handleAddAnalyzer on one request: a body that decodes or does not, and the
\* fields it carries
handleAddAnalyzerReq(decoded, id, url, weight) ==
  /\ Len(entries) < MaxAlloc
  /\ IF handleAddAnalyzerStatus(decoded, id, url, weight) = "400"
       THEN UNCHANGED poolVars
       ELSE AddAnalyzer(id, weight)
  /\ UNCHANGED <<probes, rounds, prober>>
  /\ UNCHANGED engineVars
  /\ UNCHANGED mutex

\* handleAddAnalyzer
handleAddAnalyzer ==
  \E decoded \in BOOLEAN, id \in IDs \cup {NoID}, url \in URLs,
     weight \in (-1)..MaxWeight :
    handleAddAnalyzerReq(decoded, id, url, weight)

\* handleDeleteAnalyzer on the id of the request path
handleDeleteAnalyzerReq(id) ==
  /\ RemoveAnalyzer(id)
  /\ UNCHANGED <<probes, rounds, prober>>
  /\ UNCHANGED engineVars
  /\ UNCHANGED mutex

\* mutant of handleDeleteAnalyzer: the bucket of the analyzer goes with it
handleDeleteAnalyzerForgets ==
  \E id \in IDs :
    /\ RemoveAnalyzer(id)
    /\ metrics' = [metrics EXCEPT !.byAnalyzer =
                     [x \in DOMAIN @ \ {id} |-> @[x]]]
    /\ UNCHANGED <<probes, rounds, prober, workQueue, retryQueue, retryCount,
                   task, enq, resp, mutex, tick, started, shutdown, ctxDone, stop, hist>>

\* handleDeleteAnalyzer
handleDeleteAnalyzer == \E id \in IDs : handleDeleteAnalyzerReq(id)

\* StartHealthCheck is launched: the ticker is created, the loop is entered
StartHealthCheck ==
  /\ prober = "new"
  /\ prober' = "select"
  /\ UNCHANGED <<probes, rounds>>
  /\ UNCHANGED poolVars
  /\ UNCHANGED engineVars
  /\ UNCHANGED mutex

\* StartHealthCheck: the select takes the ctx.Done case
StartHealthCheckExit ==
  /\ prober = "select"
  /\ ctxDone
  /\ prober' = "exited"
  /\ UNCHANGED <<probes, rounds>>
  /\ UNCHANGED poolVars
  /\ UNCHANGED engineVars
  /\ UNCHANGED mutex

\* mutant of LaunchProbes: only the active entries are probed
LaunchProbesActive ==
  probes \cup {[p |-> q, resp |-> "pending"] : q \in Range(GetActiveAnalyzers)}

\* checkAllAnalyzers: the list is copied under the read lock and a probe is
\* launched for each of its entries
LaunchProbes ==
  probes \cup {[p |-> q, resp |-> "pending"] : q \in Range(analyzers)}

\* StartHealthCheck: the select takes the ticker case and checkAllAnalyzers
\* runs one round
checkAllAnalyzersBody ==
  /\ prober = "select"
  /\ rounds < MaxProbes
  /\ rounds' = rounds + 1
  /\ probes' = LaunchProbes
  /\ UNCHANGED prober
  /\ UNCHANGED poolVars
  /\ UNCHANGED engineVars

\* checkAllAnalyzers, its critical section taken as one step
checkAllAnalyzers == checkAllAnalyzersBody /\ UNCHANGED mutex

\* how the GET of a probe ends: status 200, another status, or an error of
\* the client (transport error, 5 s timeout, cancelled context)
ProbeOutcomes == {"200", "status", "error"}

\* checkAnalyzerHealth, lines 172-186: the GET of the probe pr ends
checkAnalyzerHealthDo(pr, outcome) ==
  /\ pr \in probes
  /\ pr.resp = "pending"
  /\ probes' = (probes \ {pr}) \cup {[p |-> pr.p, resp |-> outcome]}
  /\ UNCHANGED <<rounds, prober>>
  /\ UNCHANGED poolVars
  /\ UNCHANGED engineVars
  /\ UNCHANGED mutex

\* what checkAnalyzerHealth sets the liveness to after the given outcome
ProbeVerdict(outcome) == outcome = "200"

\* checkAnalyzerHealth, lines 177, 183, 188-192: SetAnalyzerActive(a.ID, ...)
checkAnalyzerHealthBody(pr) ==
  /\ pr \in probes
  /\ pr.resp # "pending"
  /\ probes' = probes \ {pr}
  /\ SetAnalyzerActive(entries[pr.p].ID, ProbeVerdict(pr.resp))
  /\ UNCHANGED <<rounds, prober>>
  /\ UNCHANGED engineVars

\* checkAnalyzerHealth, its critical section taken as one step
checkAnalyzerHealth(pr) == checkAnalyzerHealthBody(pr) /\ UNCHANGED mutex

\* the probes there can be
ProbeSet == {[p |-> q, resp |-> o] : q \in 1..MaxAlloc,
                                    o \in {"pending"} \cup ProbeOutcomes}

\* ------------------------------------------------------------ selector
RECURSIVE Weights(_)
Weights(snap) ==
  IF snap = <<>> THEN <<>>
  ELSE <<entries[Head(snap)].Weight>> \o Weights(Tail(snap))

\* the values r = rand.Float64() * totalWeight can take, in units of 1/Scale
Draws(snap) ==
  LET w == SumSeq(Weights(snap))
  IN  IF w = 0 THEN {0} ELSE 0..(Scale * w - 1)

\* mutant of selectAnalyzerRandom: the walk compares with <, the fallback is
\* the last element
selectAnalyzerRandomLastFallback(snap, r) ==
  IF Len(snap) = 1 THEN snap[1]
  ELSE LET hit == {i \in 1..Len(snap) :
                     r < Scale * SumSeq(Weights(SubSeq(snap, 1, i)))}
       IN  IF hit = {} THEN snap[Len(snap)] ELSE snap[Min(hit)]

\* selectAnalyzerRandom(analyzers) with the draw r
selectAnalyzerRandom(snap, r) ==
  IF Len(snap) = 1 THEN snap[1]
  ELSE LET hit == {i \in 1..Len(snap) :
                     r <= Scale * SumSeq(Weights(SubSeq(snap, 1, i)))}
       IN  IF hit = {} THEN snap[1] ELSE snap[Min(hit)]

\* ------------------------------------------------------------- engine
\* live: the selected entry was registered and active at the snapshot;
\* out: how the last attempt ended, until processPacket has acted on it
Idle == [pc |-> "new", pkt |-> NoPkt, rc |-> 0, sel |-> NoSel, live |-> TRUE,
         out |-> "none"]

\* attempts: runs of processPacket; to: ID of the analyzer that accepted the
\* packet; bucket: the per-analyzer counters incremented for it; ovf: it found
\* retryQueue full
NoHist == [attempts |-> 0, sent |-> 0, dropped |-> 0, ovf |-> FALSE,
           to |-> NoID, bucket |-> <<>>]

\* mutant of BumpBucket: the bucket is set, not incremented
BumpBucketOverwrite(m, id) ==
  [x \in DOMAIN m \cup {id} |-> IF x = id THEN 1 ELSE m[x]]

\* the per-analyzer map after PacketsByAnalyzer[id]++
BumpBucket(m, id) ==
  IF id \in DOMAIN m THEN [m EXCEPT ![id] = @ + 1]
  ELSE [x \in DOMAIN m \cup {id} |-> IF x = id THEN 1 ELSE m[x]]

\* the pools the engine is started on: registered through AddAnalyzer, in
\* this order, before the first packet arrives
PoolSetups ==
  { <<>>,
    <<Analyzer("A", 1)>>,
    <<Analyzer("A", 1), Analyzer("B", MaxWeight)>> }

\* NewAnalyzerPool and NewLogDistributor, with the pool holding the entries
\* of pool, for an engine of nWorkers workers that is offered nPackets packets
\* meta: the retryCount attribute each packet arrives with
ConstructMeta(pool, nPackets, nWorkers, meta) ==
  /\ entries = pool
  /\ analyzers = [i \in 1..Len(pool) |-> i]
  /\ totalWeight = recalculateTotalWeight(pool, [i \in 1..Len(pool) |-> i])
  /\ probes = {}
  /\ rounds = 0
  /\ prober = "new"
  /\ workQueue = <<>>
  /\ retryQueue = <<>>
  /\ retryCount = meta
  /\ task = [t \in 0..nWorkers |-> Idle]
  /\ enq = [b \in 1..nPackets |-> "idle"]
  /\ resp = [b \in 1..nPackets |-> "none"]
  /\ mutex = NoLocks
  /\ metrics = [received |-> 0, sent |-> 0, dropped |-> 0, byAnalyzer |-> <<>>]
  /\ tick = FALSE
  /\ started = FALSE
  /\ shutdown = FALSE
  /\ ctxDone = FALSE
  /\ stop = "idle"
  /\ hist = [b \in 1..nPackets |-> NoHist]

\* the same, for packets that arrive without a retryCount attribute
Construct(pool, nPackets, nWorkers) ==
  ConstructMeta(pool, nPackets, nWorkers, [b \in 1..nPackets |-> 0])

Init == \E pool \in PoolSetups : Construct(pool, NumPackets, MaxWorkers)

\* mutant of EnqueueAdmits: the queue is not bounded
EnqueueAdmitsAlways == TRUE

\* mutant of EnqueueAdmits: a full queue still admits
EnqueueAdmitsOffByOne == Len(workQueue) <= QueueSize

\* the select of EnqueuePacket: the send case is ready
EnqueueAdmits == Len(workQueue) < QueueSize

\* mutant of EnqueueDefault: the select has no default case
EnqueueNoDefault == FALSE

\* the select of EnqueuePacket: the default case is taken
EnqueueDefault == ~EnqueueAdmits

\* EnqueuePacket, the select: the packet is placed on workQueue, or it is not
EnqueuePacketSelect(b) ==
  /\ enq[b] = "idle"
  /\ stop = "idle"
  /\ IF b = 1 THEN TRUE ELSE enq[b - 1] # "idle"
  /\ \/ /\ EnqueueAdmits
        /\ workQueue' = Append(workQueue, b)
        /\ enq' = [enq EXCEPT ![b] = "admit"]
     \/ /\ EnqueueDefault
        /\ UNCHANGED workQueue
        /\ enq' = [enq EXCEPT ![b] = "reject"]
  /\ UNCHANGED <<entries, analyzers, totalWeight, probes, rounds, prober, retryQueue,
                 retryCount, task, resp, mutex, metrics, tick, started, shutdown, ctxDone,
                 stop, hist>>

\* mutant of CountAdmitted: the admitted packet is not counted
CountAdmittedNot == metrics

\* the counters after EnqueuePacket counted an admitted / a rejected packet
CountAdmitted == [metrics EXCEPT !.received = @ + 1]
CountRejected == [metrics EXCEPT !.dropped = @ + 1]

\* EnqueuePacket, the counter update under the metrics mutex, and the return
EnqueuePacketCountBody(b) ==
  /\ enq[b] \in {"admit", "reject"}
  /\ IF enq[b] = "admit"
       THEN /\ metrics' = CountAdmitted
            /\ enq' = [enq EXCEPT ![b] = "true"]
       ELSE /\ metrics' = CountRejected
            /\ enq' = [enq EXCEPT ![b] = "false"]
  /\ UNCHANGED <<entries, analyzers, totalWeight, probes, rounds, prober, workQueue,
                 retryQueue, retryCount, task, resp, tick, started, shutdown,
                 ctxDone, stop, hist>>

\* EnqueuePacketCount, its critical section taken as one step
EnqueuePacketCount(b) == EnqueuePacketCountBody(b) /\ UNCHANGED mutex

\* handleLogPacket, lines 78-81: the body does not decode; EnqueuePacket is
\* not called
handleLogPacketInvalid(b) ==
  /\ enq[b] = "idle"
  /\ stop = "idle"
  /\ IF b = 1 THEN TRUE ELSE enq[b - 1] # "idle"
  /\ enq' = [enq EXCEPT ![b] = "invalid"]
  /\ resp' = [resp EXCEPT ![b] = "400"]
  /\ UNCHANGED <<entries, analyzers, totalWeight, probes, rounds, prober, workQueue,
                 retryQueue, retryCount, task, mutex, metrics, tick, started,
                 shutdown, ctxDone, stop, hist>>

\* mutant of handleLogPacketStatus: the result of EnqueuePacket is ignored
handleLogPacketStatusAccepted(success) == "202"

\* handleLogPacket, lines 86-98: the status for the result of EnqueuePacket
handleLogPacketStatus(success) == IF success THEN "202" ELSE "503"

\* handleLogPacket, lines 86-98: EnqueuePacket has returned, the response is
\* written
handleLogPacketRespond(b) ==
  /\ enq[b] \in {"true", "false"}
  /\ resp[b] = "none"
  /\ resp' = [resp EXCEPT ![b] = handleLogPacketStatus(enq[b] = "true")]
  /\ UNCHANGED <<entries, analyzers, totalWeight, probes, rounds, prober, workQueue,
                 retryQueue, retryCount, task, enq, mutex, metrics, tick, started,
                 shutdown, ctxDone, stop, hist>>

\* Start: the workers and the retryWorker are launched
Start ==
  /\ ~started
  /\ stop = "idle"
  /\ started' = TRUE
  /\ task' = [t \in Tasks |-> [task[t] EXCEPT !.pc = "select"]]
  /\ UNCHANGED <<entries, analyzers, totalWeight, probes, rounds, prober, workQueue,
                 retryQueue, retryCount, enq, resp, mutex, metrics, tick, shutdown, ctxDone,
                 stop, hist>>

\* worker: the select receives a packet from workQueue
WorkerReceive(w) ==
  /\ task[w].pc = "select"
  /\ workQueue # <<>>
  /\ task' = [task EXCEPT ![w] = [@ EXCEPT !.pc = "process",
                                            !.pkt = Head(workQueue), !.rc = 0]]
  /\ workQueue' = Tail(workQueue)
  /\ UNCHANGED <<entries, analyzers, totalWeight, probes, rounds, prober, retryQueue,
                 retryCount, enq, resp, mutex, metrics, tick, started, shutdown, ctxDone,
                 stop, hist>>

\* retryWorker: the select receives a packet from retryQueue
RetryReceive ==
  /\ task[Pacer].pc = "select"
  /\ retryQueue # <<>>
  /\ task' = [task EXCEPT ![Pacer] = [@ EXCEPT !.pc = "waitTick",
                                                !.pkt = Head(retryQueue)]]
  /\ retryQueue' = Tail(retryQueue)
  /\ UNCHANGED <<entries, analyzers, totalWeight, probes, rounds, prober, workQueue,
                 retryCount, enq, resp, mutex, metrics, tick, started, shutdown, ctxDone,
                 stop, hist>>

\* the ticker of the retryWorker fires; ticker.C holds at most one tick
Tick ==
  /\ task[Pacer].pc \notin {"new", "exited"}
  /\ ~tick
  /\ tick' = TRUE
  /\ UNCHANGED <<entries, analyzers, totalWeight, probes, rounds, prober, workQueue,
                 retryQueue, retryCount, task, enq, resp, mutex, metrics, started, shutdown,
                 ctxDone, stop, hist>>

\* mutant of TickReady: the retryWorker does not wait for the ticker
TickReadyAlways == TRUE

\* retryWorker, line 158: the receive from ticker.C can be taken
TickReady == tick

\* retryWorker: <-ticker.C, then the retry count is read from the metadata
RetryWaitTick ==
  /\ task[Pacer].pc = "waitTick"
  /\ TickReady
  /\ tick' = FALSE
  /\ task' = [task EXCEPT ![Pacer] =
                [@ EXCEPT !.pc = "process", !.rc = retryCount[task[Pacer].pkt]]]
  /\ UNCHANGED <<entries, analyzers, totalWeight, probes, rounds, prober, workQueue,
                 retryQueue, retryCount, enq, resp, mutex, metrics, started, shutdown,
                 ctxDone, stop, hist>>

\* mutant of ExitReady: the select has no shutdownCh case
ExitReadyCtxOnly == ctxDone

\* worker / retryWorker: the shutdownCh case or the ctx.Done case is ready
ExitReady == shutdown \/ ctxDone

\* worker / retryWorker: the select takes the shutdownCh or the ctx.Done case
TaskExit(t) ==
  /\ task[t].pc = "select"
  /\ ExitReady
  /\ task' = [task EXCEPT ![t] = [@ EXCEPT !.pc = "exited"]]
  /\ UNCHANGED <<entries, analyzers, totalWeight, probes, rounds, prober, workQueue,
                 retryQueue, retryCount, enq, resp, mutex, metrics, tick, started, shutdown,
                 ctxDone, stop, hist>>

\* processPacket, lines 167-196: the live snapshot is taken and, when it is
\* not empty, an analyzer is selected from it
ProcessSnapshotBody(t) ==
  /\ task[t].pc = "process"
  /\ LET snap == GetActiveAnalyzers
     IN  IF Len(snap) = 0
           THEN task' = [task EXCEPT ![t] = [@ EXCEPT !.pc = "failed",
                                                      !.sel = NoSel,
                                                      !.out = "empty"]]
           ELSE \E r \in Draws(snap) :
                  LET s == selectAnalyzerRandom(snap, r)
                  IN  task' = [task EXCEPT ![t] =
                        [@ EXCEPT !.pc = "forward", !.sel = s,
                                  !.live = /\ s \in Range(analyzers)
                                           /\ entries[s].Active]]
  /\ hist' = [hist EXCEPT ![task[t].pkt].attempts = @ + 1]
  /\ UNCHANGED <<entries, analyzers, totalWeight, probes, rounds, prober, workQueue,
                 retryQueue, retryCount, enq, resp, metrics, tick, started, shutdown,
                 ctxDone, stop>>

\* ProcessSnapshot, its critical section taken as one step
ProcessSnapshot(t) == ProcessSnapshotBody(t) /\ UNCHANGED mutex

\* SendLogPacket: 200, another status, or a transport error (which marks the
\* analyzer of that ID inactive before the call returns).  A failure to build
\* the request returns an error and leaves the pool alone, as "status" does.
SendLogPacket(t) ==
  /\ task[t].pc = "forward"
  /\ \E outcome \in {"ok", "status", "error"} :
       /\ IF outcome = "error"
            THEN SetAnalyzerActive(entries[task[t].sel].ID, FALSE)
            ELSE UNCHANGED poolVars
       /\ task' = [task EXCEPT ![t] =
                     [@ EXCEPT !.pc = IF outcome = "ok" THEN "sentInc"
                                      ELSE "failed",
                               !.out = outcome]]
       /\ hist' = IF outcome = "ok"
                    THEN [hist EXCEPT ![task[t].pkt].to =
                            entries[task[t].sel].ID]
                    ELSE hist
  /\ UNCHANGED <<probes, rounds, prober, workQueue, retryQueue, retryCount, enq, resp, mutex,
                 metrics, tick, started, shutdown, ctxDone, stop>>

\* mutant of CanRetry: the last permitted retry is not made
CanRetryOneLess(rc) == rc + 1 < MaxRetries

\* mutant of CanRetry: the bound is compared with <=
CanRetryOffByOne(rc) == rc <= MaxRetries

\* the retry-or-drop decision of processPacket: the packet goes to retryQueue
CanRetry(rc) == rc < MaxRetries

\* mutant of RetrySend: the packet is not placed on retryQueue
RetrySendLost(b) == retryQueue

\* retryQueue after the send case of the select on it
RetrySend(b) == Append(retryQueue, b)

\* processPacket, lines 170-192 and 202-224, up to the select on retryQueue
RetryOrDrop(t) ==
  /\ task[t].pc = "failed"
  /\ LET b == task[t].pkt
         rc == task[t].rc
     IN  IF CanRetry(rc)
           THEN /\ retryCount' = [retryCount EXCEPT ![b] = rc + 1]
                /\ IF Len(retryQueue) < QueueSize
                     THEN /\ retryQueue' = RetrySend(b)
                          /\ task' = [task EXCEPT ![t] =
                               [@ EXCEPT !.pc = "select", !.pkt = NoPkt,
                                         !.rc = 0, !.sel = NoSel, !.live = TRUE,
                                           !.out = "none"]]
                          /\ UNCHANGED hist
                     ELSE /\ UNCHANGED retryQueue
                          /\ task' = [task EXCEPT ![t] = [@ EXCEPT !.pc = "dropInc",
                                                           !.out = "none"]]
                          /\ hist' = [hist EXCEPT ![b].ovf = TRUE]
           ELSE /\ task' = [task EXCEPT ![t] = [@ EXCEPT !.pc = "dropInc",
                                                           !.out = "none"]]
                /\ UNCHANGED <<retryCount, retryQueue, hist>>
  /\ UNCHANGED <<entries, analyzers, totalWeight, probes, rounds, prober, workQueue,
                 enq, resp, mutex, metrics, tick, started, shutdown, ctxDone, stop>>

\* the counters after processPacket counted a dropped packet
CountDropped == [metrics EXCEPT !.dropped = @ + 1]

\* processPacket: PacketsDropped++ under the metrics mutex, and the return
DropCountBody(t) ==
  /\ task[t].pc = "dropInc"
  /\ metrics' = CountDropped
  /\ hist' = [hist EXCEPT ![task[t].pkt].dropped = @ + 1]
  /\ task' = [task EXCEPT ![t] = [@ EXCEPT !.pc = "select", !.pkt = NoPkt,
                                           !.rc = 0, !.sel = NoSel, !.live = TRUE,
                                           !.out = "none"]]
  /\ UNCHANGED <<entries, analyzers, totalWeight, probes, rounds, prober, workQueue,
                 retryQueue, retryCount, enq, resp, tick, started, shutdown, ctxDone,
                 stop>>

\* DropCount, its critical section taken as one step
DropCount(t) == DropCountBody(t) /\ UNCHANGED mutex

\* mutant of CountSent: TotalPacketsSent is not incremented
CountSentNoTotal(id) == [metrics EXCEPT !.byAnalyzer = BumpBucket(@, id)]

\* mutant of CountSent: the per-analyzer counter is not incremented
CountSentNoBucket(id) == [metrics EXCEPT !.sent = @ + 1]

\* the counters after a delivery to the analyzer with the given ID is counted
CountSent(id) ==
  [metrics EXCEPT !.sent = @ + 1, !.byAnalyzer = BumpBucket(@, id)]

\* processPacket, lines 228-231: TotalPacketsSent++ and PacketsByAnalyzer[ID]++
SentCountBody(t) ==
  /\ task[t].pc = "sentInc"
  /\ LET id == entries[task[t].sel].ID
     IN  /\ metrics' = CountSent(id)
         /\ hist' = [hist EXCEPT ![task[t].pkt].sent = @ + 1,
                                 ![task[t].pkt].bucket = Append(@, id)]
  /\ task' = [task EXCEPT ![t] = [@ EXCEPT !.pc = "select", !.pkt = NoPkt,
                                           !.rc = 0, !.sel = NoSel, !.live = TRUE,
                                           !.out = "none"]]
  /\ UNCHANGED <<entries, analyzers, totalWeight, probes, rounds, prober, workQueue,
                 retryQueue, retryCount, enq, resp, tick, started, shutdown, ctxDone,
                 stop>>

\* SentCount, its critical section taken as one step
SentCount(t) == SentCountBody(t) /\ UNCHANGED mutex

\* Stop, line 79: close(shutdownCh)
StopSignal ==
  /\ started
  /\ stop = "idle"
  /\ shutdown' = TRUE
  /\ stop' = "wait"
  /\ UNCHANGED <<entries, analyzers, totalWeight, probes, rounds, prober, workQueue,
                 retryQueue, retryCount, task, enq, resp, mutex, metrics, tick, started,
                 ctxDone, hist>>

\* mutant of WaitReturns: Stop does not wait for the tasks
WaitReturnsAtOnce == TRUE

\* workerWg.Wait() returns: every task Start launched has run its Done
WaitReturns == \A t \in Tasks : task[t].pc = "exited"

\* Stop, lines 80-82: workerWg.Wait() returns and both queues are closed.
\* close leaves the buffered packets in the channels; every task has exited,
\* so no receive sees a closed queue and no send reaches one.
StopClose ==
  /\ stop = "wait"
  /\ WaitReturns
  /\ stop' = "done"
  /\ UNCHANGED <<entries, analyzers, totalWeight, probes, rounds, prober, workQueue,
                 retryQueue, retryCount, task, enq, resp, mutex, metrics, tick, started,
                 shutdown, ctxDone, hist>>

\* the context is cancelled
Cancel ==
  /\ started
  /\ ~ctxDone
  /\ ctxDone' = TRUE
  /\ UNCHANGED <<entries, analyzers, totalWeight, probes, rounds, prober, workQueue,
                 retryQueue, retryCount, task, enq, resp, mutex, metrics, tick, started,
                 shutdown, stop, hist>>

EngineStep ==
  \/ \E b \in Packets : EnqueuePacketSelect(b)
  \/ \E b \in Packets : EnqueuePacketCount(b)
  \/ Start
  \/ \E w \in Workers : WorkerReceive(w)
  \/ RetryReceive
  \/ Tick
  \/ RetryWaitTick
  \/ \E t \in Tasks : ProcessSnapshot(t)
  \/ \E t \in Tasks : SendLogPacket(t)
  \/ \E t \in Tasks : RetryOrDrop(t)
  \/ \E t \in Tasks : DropCount(t)
  \/ \E t \in Tasks : SentCount(t)

StopStep ==
  \/ \E t \in Tasks : TaskExit(t)
  \/ StopSignal
  \/ StopClose
  \/ Cancel

ProbeStep ==
  \/ StartHealthCheck
  \/ checkAllAnalyzers
  \/ \E pr \in probes, outcome \in ProbeOutcomes : checkAnalyzerHealthDo(pr, outcome)
  \/ \E pr \in probes : checkAnalyzerHealth(pr)

\* The engine on a pool registered beforehand, started, stopped and cancelled.
Next ==
  \/ EngineStep
  \/ StopStep

Spec == Init /\ [][Next]_vars

PoolStep ==
  \/ handleAddAnalyzer
  \/ handleDeleteAnalyzer

\* One worker and one packet, on a pool that is registered, deregistered and
\* probed while the engine runs.
InitPool == Construct(<<>>, 1, 1)

NextPool ==
  \/ EngineStep
  \/ ProbeStep
  \/ PoolStep

SpecPool == InitPool /\ [][NextPool]_vars

FacadeStep ==
  \/ \E b \in Packets : handleLogPacketInvalid(b)
  \/ \E b \in Packets : handleLogPacketRespond(b)

\* One worker and one log POST, on a pool that is registered and deregistered
\* by requests while the engine runs.
InitFacade == Construct(<<>>, 1, 1)

NextFacade ==
  \/ EngineStep
  \/ FacadeStep
  \/ PoolStep

SpecFacade == InitFacade /\ [][NextFacade]_vars

\* One worker behind the HTTP facade, on a pool registered beforehand: the
\* packets arrive as log POSTs.
InitIngress == \E pool \in PoolSetups : Construct(pool, NumPackets, 1)

NextIngress ==
  \/ EngineStep
  \/ FacadeStep

SpecIngress == InitIngress /\ [][NextIngress]_vars

\* the pools of one to MaxPool entries that calls of AddAnalyzer, which
\* validates nothing, build: any id, any weight from 0 on
RoutePools ==
  UNION { [1..n -> {Analyzer(id, w) : id \in IDs, w \in 0..MaxWeight}] :
            n \in 1..MaxPool }

\* One worker and one packet on such a pool, from which analyzers are
\* deregistered while the engine runs.
InitRoute == \E pool \in RoutePools : Construct(pool, 1, 1)

NextRoute ==
  \/ EngineStep
  \/ handleDeleteAnalyzer

SpecRoute == InitRoute /\ [][NextRoute]_vars

\* Memory: one worker, one analyzer, and as many packets as the two queues,
\* the worker and the retryWorker can hold between them.
InitFull == Construct(<<Analyzer("A", 1)>>, 2 * QueueSize + 2, 1)

NextFull == EngineStep

SpecFull == InitFull /\ [][NextFull]_vars

\* One worker, on packets of which the first arrives with a retryCount
\* attribute of the producer and the others with or without one.
InitStamp ==
  \E pool \in PoolSetups :
    \E meta \in {f \in [1..NumPackets -> {0, FromProducer}] : f[1] = FromProducer} :
      ConstructMeta(pool, NumPackets, 1, meta)

NextStamp == EngineStep

SpecStamp == InitStamp /\ [][NextStamp]_vars

\* ------------------------------------------------------------- mutexes
\* who takes the mutexes: a task inside processPacket, the caller of
\* EnqueuePacket for a packet, the checkAnalyzerHealth goroutine of an entry,
\* and StartHealthCheck inside checkAllAnalyzers
OfTask(t)   == <<"task", t>>
OfCaller(b) == <<"enq", b>>
OfProbe(pr) == <<"probe", pr>>
OfProber    == <<"prober", 0>>

Holders ==
  {OfTask(t) : t \in 0..MaxWorkers} \cup {OfCaller(b) : b \in 1..NumPackets}
    \cup {OfProbe(pr) : pr \in ProbeSet} \cup {OfProber}

Holds(h, l) == \E x \in mutex[l] : x.who = h

\* sync.RWMutex: RLock waits while a writer holds it, Lock while anyone does
CanLock(l, mode) ==
  IF mode = "r" THEN \A x \in mutex[l] : x.mode = "r" ELSE mutex[l] = {}

\* what h is about to lock, <<>> when nothing: GetActiveAnalyzers takes the
\* pool mutex for reading, SetAnalyzerActive for writing, checkAllAnalyzers for
\* reading; the counter updates take the metrics mutex for writing
Wants(h) ==
  IF h[1] = "task"
    THEN IF h[2] \notin DOMAIN task THEN <<>>
         ELSE IF task[h[2]].pc = "process" THEN <<"pool", "r">>
         ELSE IF task[h[2]].pc = "mark" THEN <<"pool", "w">>
         ELSE IF task[h[2]].pc \in {"dropInc", "sentInc"} THEN <<"metrics", "w">>
         ELSE <<>>
  ELSE IF h[1] = "enq"
    THEN IF h[2] \in DOMAIN enq /\ enq[h[2]] \in {"admit", "reject"}
           THEN <<"metrics", "w">> ELSE <<>>
  ELSE IF h[1] = "probe"
    THEN IF h[2] \in probes /\ h[2].resp # "pending"
           THEN <<"pool", "w">> ELSE <<>>
  ELSE IF prober = "select" /\ rounds < MaxProbes THEN <<"pool", "r">>
  ELSE <<>>

\* mutant of Unlock: the mutex is not released
UnlockNot(h, l) == mutex

\* Unlock / RUnlock of mutex l by h
Unlock(h, l) == [mutex EXCEPT ![l] = {x \in @ : x.who # h}]

\* Lock / RLock: h gets the mutex it is about to lock
Lock(h) ==
  /\ Wants(h) # <<>>
  /\ ~Holds(h, Wants(h)[1])
  /\ CanLock(Wants(h)[1], Wants(h)[2])
  /\ mutex' = [mutex EXCEPT ![Wants(h)[1]] =
                 @ \cup {[who |-> h, mode |-> Wants(h)[2]]}]
  /\ UNCHANGED <<entries, analyzers, totalWeight, probes, rounds, prober,
                 workQueue, retryQueue, retryCount, task, enq, resp, metrics,
                 tick, started, shutdown, ctxDone, stop, hist>>

\* the critical sections, entered with the mutex held and left releasing it
EnqueuePacketCountLocked(b) ==
  /\ Holds(OfCaller(b), "metrics")
  /\ EnqueuePacketCountBody(b)
  /\ mutex' = Unlock(OfCaller(b), "metrics")

ProcessSnapshotLocked(t) ==
  /\ Holds(OfTask(t), "pool")
  /\ ProcessSnapshotBody(t)
  /\ mutex' = Unlock(OfTask(t), "pool")

DropCountLocked(t) ==
  /\ Holds(OfTask(t), "metrics")
  /\ DropCountBody(t)
  /\ mutex' = Unlock(OfTask(t), "metrics")

SentCountLocked(t) ==
  /\ Holds(OfTask(t), "metrics")
  /\ SentCountBody(t)
  /\ mutex' = Unlock(OfTask(t), "metrics")

checkAllAnalyzersLocked ==
  /\ Holds(OfProber, "pool")
  /\ checkAllAnalyzersBody
  /\ mutex' = Unlock(OfProber, "pool")

checkAnalyzerHealthLocked(pr) ==
  /\ Holds(OfProbe(pr), "pool")
  /\ checkAnalyzerHealthBody(pr)
  /\ mutex' = Unlock(OfProbe(pr), "pool")

\* SendLogPacket, lines 101-124: httpClient.Do returns; no mutex is involved
SendLogPacketDo(t) ==
  /\ task[t].pc = "forward"
  /\ \E outcome \in {"ok", "status", "error"} :
       /\ task' = [task EXCEPT ![t] =
                     [@ EXCEPT !.pc = IF outcome = "ok" THEN "sentInc"
                                      ELSE IF outcome = "error" THEN "mark"
                                      ELSE "failed",
                               !.out = outcome]]
       /\ hist' = IF outcome = "ok"
                    THEN [hist EXCEPT ![task[t].pkt].to =
                            entries[task[t].sel].ID]
                    ELSE hist
  /\ UNCHANGED <<entries, analyzers, totalWeight, probes, rounds, prober,
                 workQueue, retryQueue, retryCount, enq, resp, mutex, metrics,
                 tick, started, shutdown, ctxDone, stop>>

\* SendLogPacket, line 115: SetAnalyzerActive(analyzer.ID, false) under the
\* pool mutex, and the return of the error
SendLogPacketMark(t) ==
  /\ task[t].pc = "mark"
  /\ Holds(OfTask(t), "pool")
  /\ SetAnalyzerActive(entries[task[t].sel].ID, FALSE)
  /\ task' = [task EXCEPT ![t] = [@ EXCEPT !.pc = "failed"]]
  /\ mutex' = Unlock(OfTask(t), "pool")
  /\ UNCHANGED <<probes, rounds, prober, workQueue, retryQueue, retryCount,
                 enq, resp, metrics, tick, started, shutdown, ctxDone, stop,
                 hist>>

\* The engine and the prober with the mutexes explicit: one worker, one
\* packet, a pool registered beforehand.
InitLock == \E pool \in PoolSetups : Construct(pool, 1, 1)

NextLock ==
  \/ \E h \in Holders : Lock(h)
  \/ \E b \in Packets : EnqueuePacketSelect(b)
  \/ \E b \in Packets : EnqueuePacketCountLocked(b)
  \/ Start
  \/ \E w \in Workers : WorkerReceive(w)
  \/ RetryReceive
  \/ Tick
  \/ RetryWaitTick
  \/ \E t \in Tasks : ProcessSnapshotLocked(t)
  \/ \E t \in Tasks : SendLogPacketDo(t)
  \/ \E t \in Tasks : SendLogPacketMark(t)
  \/ \E t \in Tasks : RetryOrDrop(t)
  \/ \E t \in Tasks : DropCountLocked(t)
  \/ \E t \in Tasks : SentCountLocked(t)
  \/ StartHealthCheck
  \/ checkAllAnalyzersLocked
  \/ \E pr \in probes, outcome \in ProbeOutcomes : checkAnalyzerHealthDo(pr, outcome)
  \/ \E pr \in probes : checkAnalyzerHealthLocked(pr)

SpecLock == InitLock /\ [][NextLock]_vars

\* SpecLock with a scheduler that never stops while a step is possible: some
\* task, caller or probe that can run does run, a pending HTTP call returns
\* (the client has a timeout), the ticker ticks, a free mutex is granted.
LockFairness == WF_vars(NextLock)

SpecLockLive == InitLock /\ [][NextLock]_vars /\ LockFairness

\* The engine that is started and never stopped, scheduled fairly: every task
\* keeps running, every forward returns, the retry ticker keeps ticking.
NextLive == EngineStep

Fairness ==
  /\ WF_vars(Start)
  /\ WF_vars(RetryReceive)
  /\ WF_vars(Tick)
  /\ WF_vars(RetryWaitTick)
  /\ \A w \in 1..MaxWorkers : WF_vars(WorkerReceive(w))
  /\ \A t \in 0..MaxWorkers :
       /\ WF_vars(ProcessSnapshot(t))
       /\ WF_vars(SendLogPacket(t))
       /\ WF_vars(RetryOrDrop(t))
       /\ WF_vars(DropCount(t))
       /\ WF_vars(SentCount(t))

SpecLive == Init /\ [][NextLive]_vars /\ Fairness

\* Shutdown, scheduled fairly: besides the above, a task whose select has the
\* shutdownCh or the ctx.Done case ready takes it unless it keeps receiving
\* packets, and Stop goes on once workerWg.Wait() can return.  Stop and the
\* cancellation of the context come from the caller: no fairness.
InitStop == \E pool \in PoolSetups : Construct(pool, 1, MaxWorkers)

StopFairness ==
  /\ \A t \in 0..MaxWorkers : WF_vars(TaskExit(t))
  /\ WF_vars(StopClose)

SpecStop == InitStop /\ [][Next]_vars /\ Fairness /\ StopFairness

\* Shutdown of the engine and of the health prober that main launches beside
\* it, scheduled fairly: the prober too takes its ctx.Done case when ready.
InitHalt == Construct(<<Analyzer("A", 1)>>, 1, MaxWorkers)

NextHalt ==
  \/ EngineStep
  \/ StopStep
  \/ ProbeStep
  \/ StartHealthCheckExit

SpecHalt ==
  /\ InitHalt /\ [][NextHalt]_vars
  /\ Fairness /\ StopFairness
  /\ WF_vars(StartHealthCheckExit)

\* The pool with one analyzer registered beforehand, then as in SpecPool, and
\* a probe that has its response goes on to its SetAnalyzerActive call.
InitHeal == Construct(<<Analyzer("A", 1)>>, 1, 1)

HealFairness == \A pr \in ProbeSet : WF_vars(checkAnalyzerHealth(pr))

SpecHeal == InitHeal /\ [][NextPool]_vars /\ HealFairness

\* Queue saturation: one worker, one analyzer, and more packets than the
\* queue and the worker can hold between them.
InitSat == Construct(<<Analyzer("A", 1)>>, QueueSize + 2, 1)

NextSat == EngineStep

SpecSat == InitSat /\ [][NextSat]_vars

\* ====================================================================
\* Properties
\* ====================================================================

\* the EnqueuePacket calls that have returned false
Rejected == {b \in Packets : enq[b] = "false"}

\* the packets EnqueuePacket placed on workQueue
Admitted == {b \in Packets : enq[b] \in {"admit", "true"}}

\* the packets a task holds
Held == {task[t].pkt : t \in Tasks} \ {NoPkt}

\* an admitted packet the engine is through with
Completed(b) ==
  /\ b \in Admitted
  /\ b \notin Range(workQueue) \cup Range(retryQueue) \cup Held

\* C1: in every reachable state totalReceived >= totalSent + totalDropped.
C1_ReceivedCoversOutcomes ==
  metrics.received >= metrics.sent + metrics.dropped

\* ingress queue empty, retry queue empty, no task holds a packet, no
\* EnqueuePacket call in progress
Quiescent ==
  /\ workQueue = <<>>
  /\ retryQueue = <<>>
  /\ Held = {}
  /\ \A b \in Packets : enq[b] \notin {"admit", "reject"}

\* C2 as stated: whenever the engine is quiescent,
\* totalReceived = totalSent + totalDropped.
C2_QuiescentBalance ==
  Quiescent => metrics.received = metrics.sent + metrics.dropped

\* C2 as amended: whenever the engine is quiescent, totalReceived plus the
\* number of EnqueuePacket calls that returned false equals
\* totalSent + totalDropped.
C2_QuiescentBalanceWithRejects ==
  Quiescent =>
    metrics.received + Cardinality(Rejected) = metrics.sent + metrics.dropped

\* a quiescent engine that rejected a packet, delivered one, or dropped one
C2_Witness ==
  /\ Quiescent
  /\ Rejected # {}
  /\ metrics.sent + metrics.dropped > Cardinality(Rejected)

\* TotalPacketsSent, PacketsDropped split over the packets, and one bucket
SentOf     == [b \in Packets |-> hist[b].sent]
DroppedOf  == [b \in Packets |-> hist[b].dropped]
BucketOf(id) ==
  IF id \in DOMAIN metrics.byAnalyzer THEN metrics.byAnalyzer[id] ELSE 0

\* C3: every admitted packet the engine is through with was counted exactly
\* once: either in totalSent together with exactly one per-analyzer bucket,
\* that of the analyzer that accepted it, or in totalDropped; no packet is
\* counted in both or twice, and the counters are the sums of these counts.
C3_CountedExactlyOnce ==
  /\ \A b \in Packets :
       /\ hist[b].sent + hist[b].dropped <= 1
       /\ Completed(b) => hist[b].sent + hist[b].dropped = 1
       /\ b \notin Admitted => hist[b].sent + hist[b].dropped = 0
       /\ hist[b].sent = 1 => hist[b].to # NoID /\ hist[b].bucket = <<hist[b].to>>
       /\ hist[b].sent = 0 => hist[b].bucket = <<>>
  /\ metrics.sent = SumSet(Packets, SentOf)
  /\ metrics.dropped = SumSet(Packets, DroppedOf) + Cardinality(Rejected)
  /\ \A id \in IDs :
       BucketOf(id) = Cardinality({b \in Packets : hist[b].bucket = <<id>>})

\* one packet was delivered and another was dropped by processPacket
C3_Witness ==
  \E b1, b2 \in Packets :
    /\ Completed(b1) /\ hist[b1].sent = 1
    /\ Completed(b2) /\ hist[b2].dropped = 1

\* C4: an EnqueuePacket call takes the send case iff workQueue holds fewer
\* than queueSize packets at that moment; then the packet is appended and the
\* call returns true after adding exactly 1 to totalReceived and nothing to
\* totalDropped; otherwise the queue is unchanged and the call returns false
\* after adding exactly 1 to totalDropped and nothing to totalReceived.
C4_EnqueueContract ==
  [][\A b \in DOMAIN enq :
       /\ (enq[b] = "idle" /\ enq'[b] # "idle") =>
            /\ enq'[b] = (IF Len(workQueue) < QueueSize THEN "admit" ELSE "reject")
            /\ workQueue' = (IF enq'[b] = "admit" THEN Append(workQueue, b)
                             ELSE workQueue)
            /\ metrics' = metrics
       /\ (enq[b] = "admit" /\ enq'[b] # "admit") =>
            /\ enq'[b] = "true"
            /\ metrics' = [metrics EXCEPT !.received = @ + 1]
            /\ workQueue' = workQueue
       /\ (enq[b] = "reject" /\ enq'[b] # "reject") =>
            /\ enq'[b] = "false"
            /\ metrics' = [metrics EXCEPT !.dropped = @ + 1]
            /\ workQueue' = workQueue
       /\ enq[b] \in {"true", "false"} => enq'[b] = enq[b]]_vars

\* one call has returned true and another has returned false
C4_Witness ==
  \E b1, b2 \in Packets : enq[b1] = "true" /\ enq[b2] = "false"

\* C5: before Stop, an EnqueuePacket call can always take its next step,
\* whatever the tasks are doing, whatever the pool holds and whether or not
\* workQueue is full: the select can be taken, and so can the counter update.
C5_EnqueueNeverBlocks ==
  \A b \in Packets :
    /\ (/\ enq[b] = "idle"
        /\ stop = "idle"
        /\ \A c \in Packets : c < b => enq[c] # "idle")
         => ENABLED EnqueuePacketSelect(b)
    /\ enq[b] \in {"admit", "reject"} => ENABLED EnqueuePacketCount(b)

\* a call has taken the default case on a full queue that no started worker
\* has made room in, and is about to count the packet
C5_Witness ==
  /\ started
  /\ Len(workQueue) = QueueSize
  /\ \E b \in Packets : enq[b] = "reject"

\* C6: with no shutdown and no cancellation, under fair scheduling, every
\* packet EnqueuePacket admitted is eventually counted in totalSent or in
\* totalDropped.
C6_AdmittedEventuallyCounted ==
  \A b \in 1..NumPackets :
    (enq[b] \in {"admit", "true"}) ~> (hist[b].sent + hist[b].dropped >= 1)

\* a packet went through the retry queue and was then counted
C6_Witness ==
  \E b \in Packets :
    /\ hist[b].attempts >= 2
    /\ hist[b].sent + hist[b].dropped = 1

\* C7: the analyzer a task selected was in the pool and active when the live
\* snapshot it was selected from was taken.
C7_SelectedWasLive ==
  \A t \in Tasks : task[t].sel # NoSel => task[t].live

\* a forward is in progress to an analyzer that has since been deregistered
\* or marked inactive
C7_Witness ==
  \E t \in Tasks :
    /\ task[t].pc = "forward"
    /\ \/ task[t].sel \notin Range(analyzers)
       \/ ~entries[task[t].sel].Active

\* the positions of the list that hold an active entry, and their weights
ActiveAt == {i \in 1..Len(analyzers) : entries[analyzers[i]].Active}
WeightAt == [i \in 1..Len(analyzers) |-> entries[analyzers[i]].Weight]

\* C8: totalWeight is the sum of the weights of the registered entries that
\* are active.
C8_TotalLiveWeight == totalWeight = SumSet(ActiveAt, WeightAt)

\* of two registered entries one is active and the other is not
C8_Witness ==
  /\ Len(analyzers) = 2
  /\ Cardinality(ActiveAt) = 1
  /\ totalWeight > 0

\* C9: no two entries of the pool share an identifier.
C9_UniqueIds ==
  \A i, j \in 1..Len(analyzers) :
    i # j => entries[analyzers[i]].ID # entries[analyzers[j]].ID

\* C10: a packet none of whose attempts succeeded and that never found the
\* retry queue full is processed at most maxRetries + 1 times, first by a
\* worker with retry count 0 and then by the retryWorker with retry counts
\* 1..maxRetries; it is dropped after exactly maxRetries + 1 attempts,
\* counted once in totalDropped and never in totalSent.
C10_RetriesThenDrop ==
  \A b \in Packets :
    /\ \A t \in Tasks :
         (task[t].pkt = b /\ task[t].pc = "process") =>
           /\ task[t].rc = hist[b].attempts
           /\ (t = Pacer) <=> (task[t].rc > 0)
    /\ (hist[b].to = NoID /\ ~hist[b].ovf) =>
         /\ hist[b].attempts <= MaxRetries + 1
         /\ hist[b].sent = 0
         /\ hist[b].dropped <= 1
         /\ hist[b].dropped = 1 => hist[b].attempts = MaxRetries + 1
         /\ Completed(b) => hist[b].dropped = 1

\* with no analyzers, the only packet received was dropped after
\* maxRetries + 1 attempts
C10_Witness ==
  /\ entries = <<>>
  /\ metrics.received = 1 /\ metrics.sent = 0 /\ metrics.dropped = 1
  /\ \E b \in Packets :
       /\ Completed(b)
       /\ ~hist[b].ovf
       /\ hist[b].attempts = MaxRetries + 1

\* the pool holds one analyzer, which is live
SingleLive == Len(analyzers) = 1 /\ entries[analyzers[1]].Active

\* C11: with a single analyzer that has stayed live (so that every failure
\* so far was a non-200 response) and a packet that never found the retry
\* queue full: none of its first maxRetries failures gets it dropped, and
\* once its (k+1)-th forward succeeded, k <= maxRetries, it is never counted
\* in totalDropped and ends counted exactly once in totalSent and in the
\* bucket of that analyzer.
C11_RetriedThenSent ==
  SingleLive =>
    \A b \in Packets :
      ~hist[b].ovf =>
        /\ hist[b].attempts <= MaxRetries => hist[b].dropped = 0
        /\ hist[b].to # NoID =>
             /\ hist[b].attempts <= MaxRetries + 1
             /\ hist[b].dropped = 0
             /\ hist[b].sent <= 1
             /\ Completed(b) =>
                  /\ hist[b].sent = 1
                  /\ hist[b].bucket = <<entries[analyzers[1]].ID>>
                  /\ metrics.sent = Cardinality({c \in Packets : hist[c].sent = 1})
                  /\ BucketOf(entries[analyzers[1]].ID) = metrics.sent

\* maxRetries forwards of the only packet received failed with a non-200
\* response, the next one succeeded: sent = 1 and dropped = 0
C11_Witness ==
  /\ SingleLive
  /\ metrics.received = 1 /\ metrics.sent = 1 /\ metrics.dropped = 0
  /\ \E b \in Packets :
       /\ Completed(b)
       /\ ~hist[b].ovf
       /\ hist[b].attempts = MaxRetries + 1
       /\ BucketOf(hist[b].to) = 1

\* an EnqueuePacket call found workQueue full, or an attempt failed (it is
\* being handled, or it left a retry count or a drop behind)
Disturbed ==
  \/ \E b \in DOMAIN enq :
       \/ enq[b] \in {"reject", "false"}
       \/ retryCount[b] > 0
       \/ hist[b].dropped > 0
  \/ \E t \in DOMAIN task : task[t].pc \in {"failed", "dropInc"}

\* every packet was forwarded once to the only analyzer and counted
AllDelivered ==
  /\ metrics.sent = NumPackets
  /\ metrics.dropped = 0
  /\ BucketOf(entries[analyzers[1]].ID) = NumPackets

\* C12: with exactly one registered analyzer, under fair scheduling, unless
\* an EnqueuePacket call finds workQueue full or a forward fails: every
\* admitted packet is eventually delivered, and once all n calls have
\* returned the engine reaches sent = n, dropped = 0, per-analyzer[A] = n.
C12_AllEventuallyDelivered ==
  /\ \A b \in 1..NumPackets :
       (Len(analyzers) = 1 /\ enq[b] \in {"admit", "true"})
         ~> (Disturbed \/ (hist[b].sent = 1 /\ hist[b].dropped = 0))
  /\ (Len(analyzers) = 1 /\ \A b \in 1..NumPackets : enq[b] = "true")
       ~> (Disturbed \/ AllDelivered)

\* all n packets were admitted and delivered to the only analyzer, and no
\* call or forward had failed
C12_Witness ==
  /\ Len(analyzers) = 1
  /\ ~Disturbed
  /\ \A b \in Packets : enq[b] = "true"
  /\ AllDelivered

\* the engine is started and the downstream has not responded: no forward
\* has returned, so no attempt has succeeded or failed
Stalled ==
  /\ started
  /\ \A t \in Tasks : task[t].pc \in {"select", "process", "forward"}
  /\ \A b \in Packets :
       hist[b].to = NoID /\ hist[b].dropped = 0 /\ retryCount[b] = 0

\* every EnqueuePacket call has returned
AllCallsReturned == \A b \in Packets : enq[b] \in {"true", "false"}

\* C13 as stated: with the workers stalled, of n calls at least n - queueSize
\* (6 of 10 with queueSize = 4) return false and are counted in totalDropped.
C13_SaturationDrops ==
  (Stalled /\ AllCallsReturned) =>
    /\ Cardinality(Rejected) >= Cardinality(Packets) - QueueSize
    /\ metrics.dropped >= Cardinality(Packets) - QueueSize

\* C13 as amended: with the workers stalled, of n calls at least
\* n - queueSize - N return false, N the number of workers (a stalled worker
\* holds a packet it took out of workQueue), and totalDropped counts them.
C13_SaturationDropsBesideWorkers ==
  (Stalled /\ AllCallsReturned) =>
    /\ Cardinality(Rejected) >=
         Cardinality(Packets) - QueueSize - Cardinality(Workers)
    /\ metrics.dropped = Cardinality(Rejected)

\* every worker is stalled in a forward, workQueue is full, and exactly
\* n - queueSize - N calls returned false
C13_Witness ==
  /\ Stalled /\ AllCallsReturned
  /\ \A w \in Workers : task[w].pc = "forward"
  /\ Len(workQueue) = QueueSize
  /\ Cardinality(Rejected) =
       Cardinality(Packets) - QueueSize - Cardinality(Workers)
  /\ Cardinality(Rejected) > 0

\* the analyzer with this id is registered and live, as SetAnalyzerActive
\* last left it: the entry a call with this id acts on is active
MarkedLive(id) ==
  /\ FirstMatch(id) # 0
  /\ entries[analyzers[FirstMatch(id)]].Active

\* C14: a processing that takes its live snapshot while analyzer A is marked
\* not-live does not forward to A (so A's delivered count cannot grow from
\* it); while another analyzer is live the batch is forwarded, to a live one.
C14_NotLiveIsSkipped ==
  [][\A t \in DOMAIN task :
       task[t].pc = "process" =>
         /\ task'[t].pc = "forward" => MarkedLive(entries[task'[t].sel].ID)
         /\ (\E id \in IDs : MarkedLive(id)) => task'[t].pc # "failed"]_vars

\* C15: when the health probe of a registered analyzer completes, that
\* analyzer's liveness becomes true if the response status was 200 and false
\* after any other status, a transport error or a timeout, and totalWeight
\* is recomputed in the same step.
C15_ProbeSetsLiveness ==
  [][\A pr \in probes :
       (pr.resp # "pending" /\ pr \notin probes' /\ pr.p \in Range(analyzers)) =>
         /\ entries'[pr.p].Active = (pr.resp = "200")
         /\ analyzers' = analyzers
         /\ totalWeight' =
              SumSet({i \in 1..Len(analyzers) : entries'[analyzers[i]].Active},
                     WeightAt)]_vars

\* C17: SendLogPacket reports success iff the response status is 200; when
\* it fails with a transport error the target entry, if still registered, is
\* not live when it returns; when it fails with a non-200 response it leaves
\* the liveness of every entry as it was.
C17_ForwardAndLiveness ==
  [][\A t \in DOMAIN task :
       (task[t].pc = "forward" /\ task'[t].pc # "forward") =>
         /\ task'[t].out \in {"ok", "status", "error"}
         /\ (task'[t].pc = "sentInc") <=> (task'[t].out = "ok")
         /\ (task'[t].pc = "failed") <=> (task'[t].out # "ok")
         /\ (task'[t].out = "error" /\ task[t].sel \in Range(analyzers)) =>
              ~entries'[task[t].sel].Active
         /\ task'[t].out = "status" => entries' = entries]_vars

\* C18: once Stop has closed shutdownCh, under fair scheduling (every forward
\* returns, the retry ticker keeps ticking), Stop eventually returns; and it
\* has returned only when all N workers and the retryWorker have exited.
C18_StopTerminates ==
  /\ (stop = "wait") ~> (stop = "done")
  /\ [](stop = "done" => \A t \in 0..MaxWorkers : task[t].pc = "exited")

\* Stop has returned, with the context never cancelled, after the engine had
\* taken a packet in
C18_Witness ==
  /\ stop = "done"
  /\ ~ctxDone
  /\ \A t \in Tasks : task[t].pc = "exited"
  /\ \E b \in Packets : hist[b].attempts >= 1

\* C20: the step of Stop that closes the queues changes no counter, and the
\* packets it leaves in workQueue and retryQueue stay there uncounted: once
\* Stop has returned, the queues, totalSent, the per-analyzer counts and what
\* was counted for each packet no longer change, and totalReceived and
\* totalDropped change only by the count of an EnqueuePacket call that was
\* still in progress.
C20_CloseDiscardsUncounted ==
  [][/\ (stop = "wait" /\ stop' = "done") =>
          /\ metrics' = metrics
          /\ hist' = hist
          /\ workQueue' = workQueue /\ retryQueue' = retryQueue
     /\ stop = "done" =>
          /\ workQueue' = workQueue /\ retryQueue' = retryQueue
          /\ hist' = hist
          /\ \A b \in Range(workQueue) \cup Range(retryQueue) :
               hist[b].sent + hist[b].dropped = 0
          /\ metrics'.sent = metrics.sent
          /\ metrics'.byAnalyzer = metrics.byAnalyzer
          /\ metrics' # metrics =>
               \E b \in DOMAIN enq :
                 /\ enq[b] \in {"admit", "reject"}
                 /\ enq'[b] \in {"true", "false"}]_vars

\* Stop has returned and left a packet in workQueue and one in retryQueue
C20_Witness ==
  /\ stop = "done"
  /\ workQueue # <<>>
  /\ retryQueue # <<>>
  /\ metrics.received > metrics.sent + metrics.dropped

\* every worker and the retryWorker have left their loops
TasksExited == \A t \in 0..MaxWorkers : task[t].pc = "exited"

\* C19: each shutdown mechanism alone ends every loop.  Once the context is
\* cancelled, or once shutdownCh is closed and the context stays alive, every
\* worker, the retryWorker and the health prober eventually exit.
C19_EitherAloneTerminates ==
  /\ ctxDone ~> TasksExited
  /\ (ctxDone /\ prober = "select") ~> (prober = "exited")
  /\ shutdown ~> (ctxDone \/ TasksExited)
  /\ (shutdown /\ prober = "select") ~> (ctxDone \/ prober = "exited")

\* C16: a probe round launches a probe for every registered entry, live or
\* not; and when the probe of a registered entry that is not live is answered
\* with status 200, the entry eventually is live again (or is deregistered).
C16_ProbedBackToLive ==
  /\ [][rounds' = rounds + 1 =>
          \A q \in Range(analyzers) : [p |-> q, resp |-> "pending"] \in probes']_vars
  /\ \A q \in 1..MaxAlloc :
       (/\ [p |-> q, resp |-> "200"] \in probes
        /\ q \in Range(analyzers)
        /\ ~entries[q].Active)
         ~> (q \notin Range(analyzers) \/ entries[q].Active)

\* a forward to a registered entry has just failed with a transport error
\* and marked it not-live, while a probe of it has been answered with 200
C16_Witness ==
  \E q \in Range(analyzers) :
    /\ ~entries[q].Active
    /\ [p |-> q, resp |-> "200"] \in probes
    /\ \E t \in Tasks : task[t].out = "error" /\ task[t].sel = q

\* C21: whenever the metrics mutex is not write-held (every critical section
\* is one step, so: in every state), totalSent equals the sum of the
\* per-analyzer counts.
C21_SentIsSumOfBuckets ==
  metrics.sent = SumSet(DOMAIN metrics.byAnalyzer, metrics.byAnalyzer)

\* two deliveries were counted, one for each of two analyzers
C21_Witness ==
  /\ metrics.sent = 2
  /\ BucketOf("A") = 1
  /\ BucketOf("B") = 1

\* C22: the counters never decrease, and a per-analyzer entry, once created,
\* is never removed or reset, whatever happens to its analyzer.
C22_CountersMonotone ==
  [][/\ metrics'.received >= metrics.received
     /\ metrics'.sent >= metrics.sent
     /\ metrics'.dropped >= metrics.dropped
     /\ \A id \in DOMAIN metrics.byAnalyzer :
          /\ id \in DOMAIN metrics'.byAnalyzer
          /\ metrics'.byAnalyzer[id] >= metrics.byAnalyzer[id]]_vars

\* a delivery to A was counted, and A has since been deregistered
C22_Witness ==
  /\ BucketOf("A") >= 1
  /\ FirstMatch("A") = 0

\* C24: a client-input error touches no core state.  A log POST that is
\* answered 400 leaves workQueue, the metrics and the pool as they were; a
\* registration whose body does not decode, or that carries an empty id, an
\* empty url or a weight <= 0, is answered 400 and leaves them as they were;
\* so every entry the facade registered has an id and a weight > 0.
C24_ClientErrorTouchesNothing ==
  /\ [](\A i \in 1..MaxAlloc :
          i \in DOMAIN entries => entries[i].Weight > 0 /\ entries[i].ID # NoID)
  /\ [][/\ \A b \in DOMAIN resp :
             (resp'[b] = "400" /\ resp[b] # "400") =>
               UNCHANGED <<workQueue, retryQueue, metrics, entries, analyzers,
                           totalWeight>>
        /\ \A decoded \in BOOLEAN, id \in IDs \cup {NoID}, url \in URLs,
              weight \in (-1)..MaxWeight :
             (/\ handleAddAnalyzerReq(decoded, id, url, weight)
              /\ (~decoded \/ id = NoID \/ url = NoURL \/ weight <= 0)) =>
               /\ handleAddAnalyzerStatus(decoded, id, url, weight) = "400"
               /\ UNCHANGED <<workQueue, retryQueue, metrics, entries,
                              analyzers, totalWeight>>]_vars

\* a log POST was answered 400 while the pool holds an entry registered
\* through the facade and the engine is running
C24_Witness ==
  /\ \E b \in Packets : resp[b] = "400" /\ enq[b] = "invalid"
  /\ analyzers # <<>>
  /\ started

\* C25: a decodable log POST is answered 202 iff EnqueuePacket returned true
\* and 503 iff it returned false; the answer is written as soon as
\* EnqueuePacket has returned, and nothing that happens to the packet later
\* changes it.
C25_AnswerIsEnqueueResult ==
  /\ [](\A b \in 1..NumPackets :
          /\ resp[b] = "202" <=> (enq[b] = "true" /\ resp[b] # "none")
          /\ resp[b] = "503" <=> (enq[b] = "false" /\ resp[b] # "none")
          /\ (enq[b] \in {"true", "false"} /\ resp[b] = "none") =>
               ENABLED handleLogPacketRespond(b))
  /\ [][\A b \in DOMAIN resp : resp[b] # "none" => resp'[b] = resp[b]]_vars

\* one POST was answered 202 and its packet was dropped afterwards, another
\* was answered 503
C25_Witness ==
  \E b, c \in Packets :
    /\ resp[b] = "202"
    /\ hist[b].dropped = 1
    /\ resp[c] = "503"

\* C26: a deregistration of id removes one entry, one that has this id, and
\* keeps every other entry in its place in the order, with its weight and its
\* liveness; totalWeight becomes the sum of the weights of the live entries
\* left.  When no entry has the id, the list and totalWeight stay as they are.
C26_DeregisterFrame ==
  [][\A id \in IDs :
       handleDeleteAnalyzerReq(id) =>
         LET m == {i \in 1..Len(analyzers) : entries[analyzers[i]].ID = id}
             live(l) == [j \in 1..Len(l) |->
                           IF entries[l[j]].Active THEN entries[l[j]].Weight
                           ELSE 0]
         IN  /\ entries' = entries
             /\ IF m = {}
                  THEN analyzers' = analyzers /\ totalWeight' = totalWeight
                  ELSE /\ \E i \in m :
                            analyzers' = [j \in 1..(Len(analyzers) - 1) |->
                                            IF j < i THEN analyzers[j]
                                            ELSE analyzers[j + 1]]
                       /\ totalWeight' = SumSeq(live(analyzers'))]_vars

\* the second of three entries was deregistered; the first and the third are
\* left in this order, the third not live
C26_Witness ==
  /\ Len(entries) = 3
  /\ analyzers = <<1, 3>>
  /\ entries[1].Active
  /\ ~entries[3].Active
  /\ entries[2].ID # entries[1].ID

\* C27: the retry-or-drop decision.  When an attempt with retry count c has
\* failed (empty live snapshot, or failed forward): if c < maxRetries and
\* retryQueue has room, the packet is placed on retryQueue stamped c + 1 and
\* no counter changes; otherwise the packet is not queued and PacketsDropped
\* is incremented by 1.  The decision can always be taken: a full retryQueue
\* does not block the task.
C27_RetryOrDropDecision ==
  /\ [](\A t \in 0..MaxWorkers :
          (t \in DOMAIN task /\ task[t].pc = "failed") => ENABLED RetryOrDrop(t))
  /\ [][\A t \in Tasks :
          /\ (task[t].pc = "failed" /\ task'[t] # task[t]) =>
               LET b == task[t].pkt
                   c == task[t].rc
               IN  IF c < MaxRetries /\ Len(retryQueue) < QueueSize
                     THEN /\ retryQueue' = Append(retryQueue, b)
                          /\ retryCount'[b] = c + 1
                          /\ metrics' = metrics
                          /\ task'[t].pc = "select"
                     ELSE /\ retryQueue' = retryQueue
                          /\ workQueue' = workQueue
                          /\ metrics' = metrics
                          /\ task'[t].pc = "dropInc"
          /\ (task[t].pc = "dropInc" /\ task'[t] # task[t]) =>
               /\ metrics' = [metrics EXCEPT !.dropped = @ + 1]
               /\ retryQueue' = retryQueue
               /\ workQueue' = workQueue
               /\ task'[t].pc = "select"]_vars

\* one packet was dropped because retryQueue was full, with retries left; the
\* other was retried maxRetries times and then dropped
C27_Witness ==
  \E b, c \in Packets :
    /\ hist[b].ovf
    /\ hist[b].dropped = 1
    /\ retryCount[b] <= MaxRetries
    /\ ~hist[c].ovf
    /\ hist[c].attempts = MaxRetries + 1
    /\ hist[c].dropped = 1

\* C28: for a live snapshot of two or more entries with total weight W > 0
\* and every draw r in [0, W), the selector returns the first entry, in the
\* order of the snapshot, whose cumulative weight c satisfies r < c.
C28_FirstStrictlyAbove ==
  LET snap == GetActiveAnalyzers
      cum(i) == Scale * SumSeq(Weights(SubSeq(snap, 1, i)))
  IN  (Len(snap) >= 2 /\ SumSeq(Weights(snap)) > 0) =>
        \A r \in Draws(snap) :
          \E i \in 1..Len(snap) :
            /\ selectAnalyzerRandom(snap, r) = snap[i]
            /\ r < cum(i)
            /\ \A j \in 1..(i - 1) : cum(j) <= r

\* C29: when the live snapshot holds an entry of weight > 0, the entry a task
\* selects from it does not have weight 0.
C29_ZeroWeightNeverPicked ==
  [][\A t \in Tasks :
       (task[t].pc = "process" /\ task'[t].pc = "forward") =>
         LET snap == GetActiveAnalyzers
         IN  (\E i \in 1..Len(snap) : entries[snap[i]].Weight > 0) =>
               entries[task'[t].sel].Weight > 0]_vars

\* C30: the entry a task selects from a non-empty live snapshot is an element
\* of the snapshot: its only element when it has one, and its first element
\* when all its weights are zero.
C30_SelectsFromSnapshot ==
  [][\A t \in Tasks :
       (task[t].pc = "process" /\ task'[t].pc = "forward") =>
         LET snap == GetActiveAnalyzers
         IN  /\ task'[t].sel \in Range(snap)
             /\ Len(snap) = 1 => task'[t].sel = snap[1]
             /\ (\A i \in 1..Len(snap) : entries[snap[i]].Weight = 0) =>
                  task'[t].sel = snap[1]]_vars

\* a task has selected the first of three live entries, all of weight zero
C30_Witness ==
  LET snap == GetActiveAnalyzers
  IN  /\ Len(snap) = 3
      /\ \A i \in 1..Len(snap) : entries[snap[i]].Weight = 0
      /\ \E t \in Tasks : task[t].pc = "forward" /\ task[t].sel = snap[1]

\* a task is inside processPacket
Attempting(t) == task[t].pc \in {"process", "forward", "failed", "sentInc", "dropInc"}

\* C31: retries are paced by one task.  Only the retryWorker takes packets
\* from retryQueue, one at a time; it starts the attempt on a packet only by
\* consuming a tick from ticker.C, after it read the packet from retryQueue;
\* a worker only ever holds a packet on its first attempt.  So at most one
\* retry attempt is in progress, and each one has used up a tick of its own.
C31_RetryPacing ==
  /\ [](\A w \in 1..MaxWorkers :
          (w \in DOMAIN task /\ Attempting(w)) =>
            /\ task[w].rc = 0
            /\ hist[task[w].pkt].attempts <= 1)
  /\ [][/\ retryQueue' # retryQueue /\ Len(retryQueue') < Len(retryQueue) =>
             /\ task[Pacer].pc = "select"
             /\ task'[Pacer].pc = "waitTick"
             /\ task'[Pacer].pkt = Head(retryQueue)
             /\ retryQueue' = Tail(retryQueue)
        /\ (~Attempting(Pacer) /\ Attempting(Pacer)') =>
             /\ task[Pacer].pc = "waitTick"
             /\ task'[Pacer].pkt = task[Pacer].pkt
             /\ tick /\ ~tick'
        /\ (~tick /\ tick') => UNCHANGED <<task, retryQueue, workQueue>>]_vars

\* the retryWorker is on the last retry of one packet while a worker is on
\* the first attempt of the other and the next tick is already buffered
C31_Witness ==
  /\ task[Pacer].pc = "forward"
  /\ task[Pacer].rc = MaxRetries
  /\ tick
  /\ \E w \in Workers : task[w].pc = "forward"

\* an outbound HTTP call of h is in progress: the forward of a task, the GET
\* of a probe
InCall(h) ==
  \/ h[1] = "task" /\ h[2] \in DOMAIN task /\ task[h[2]].pc = "forward"
  \/ h[1] = "probe" /\ h[2].resp = "pending"

\* C32: locking discipline.  Nobody holds the pool mutex while an outbound
\* HTTP call of its own is in progress, and nobody holds the pool mutex and
\* the metrics mutex at the same time.
C32_LockingDiscipline ==
  \A h \in Holders :
    /\ Holds(h, "pool") => ~InCall(h)
    /\ ~(Holds(h, "pool") /\ Holds(h, "metrics"))

\* a task holds the pool mutex to mark the analyzer not live while the GET
\* of a probe is in progress and the caller of EnqueuePacket holds the
\* metrics mutex
C32_Witness ==
  /\ \E t \in Tasks : task[t].pc = "mark" /\ Holds(OfTask(t), "pool")
  /\ \E pr \in probes : pr.resp = "pending"
  /\ \E b \in Packets : Holds(OfCaller(b), "metrics")

\* a probe of entry q has been answered with something other than 200, and
\* no probe of q is pending or answered with 200
FailedProbeOnly(q) ==
  /\ \E pr \in probes : pr.p = q /\ pr.resp \in {"status", "error"}
  /\ ~\E pr \in probes : pr.p = q /\ pr.resp \in {"pending", "200"}

\* C33: a registered analyzer whose /health does not return 200 is parked.
\* Once a probe of it has failed and no probe of it is outstanding that was
\* or may be answered with 200, the entry eventually is not live (or is
\* deregistered); and an entry that is not live becomes live again only
\* through a probe of its id that was answered with 200.
C33_FailedProbeParks ==
  /\ \A q \in 1..MaxAlloc :
       (q \in Range(analyzers) /\ FailedProbeOnly(q))
         ~> (q \notin Range(analyzers) \/ ~entries[q].Active)
  /\ [][\A q \in Range(analyzers) :
          (~entries[q].Active /\ entries'[q].Active) =>
            \E pr \in probes :
              pr.resp = "200" /\ entries[pr.p].ID = entries[q].ID]_vars

\* C34: the live snapshot holds exactly the registered entries that are live,
\* each once, in the order of their registration (pointers are numbered in
\* the order of allocation); an entry that is registered is live and is the
\* last element of the snapshot taken next.
C34_SnapshotLiveExact ==
  /\ [](LET snap == GetActiveAnalyzers
        IN  /\ \A q \in 1..MaxAlloc :
                 (q \in Range(snap)) <=>
                   (q \in Range(analyzers) /\ entries[q].Active)
            /\ \A i, j \in 1..MaxAlloc :
                 (i < j /\ j <= Len(snap)) => snap[i] < snap[j])
  /\ [][Len(entries') = Len(entries) + 1 =>
          /\ entries'[Len(entries')].Active
          /\ GetActiveAnalyzers' # <<>>
          /\ GetActiveAnalyzers'[Len(GetActiveAnalyzers')] = Len(entries')]_vars

\* of two registered entries the first is not live: the snapshot is the
\* second alone
C34_Witness ==
  /\ analyzers = <<1, 2>>
  /\ ~entries[1].Active
  /\ GetActiveAnalyzers = <<2>>

\* C35: the result of a probe or of a forward is applied only to the entry
\* it concerns.  When the entry a probe was launched for, or a forward was
\* sent to, is no longer registered at the time the result is applied, the
\* liveness of every entry then in the pool stays as it is.
C35_ResultOnlyForItsEntry ==
  [][/\ \A pr \in probes :
          (pr \notin probes' /\ pr.p \notin Range(analyzers)) =>
            \A q \in Range(analyzers) : entries'[q].Active = entries[q].Active
     /\ \A t \in Tasks :
          (/\ task[t].pc = "forward"
           /\ task'[t].pc # "forward"
           /\ task[t].sel \notin Range(analyzers)) =>
            \A q \in Range(analyzers) : entries'[q].Active = entries[q].Active]_vars

\* the tasks that hold a packet
Holding == {t \in Tasks : task[t].pkt # NoPkt}

\* C36: bounded memory.  workQueue and retryQueue each hold at most
\* queue-size packets, every task holds at most one, no packet is in two
\* places, and so the engine owns at most 2 * queue-size + workers + 1 packets.
C36_BoundedMemory ==
  /\ Len(workQueue) <= QueueSize
  /\ Len(retryQueue) <= QueueSize
  /\ Cardinality(Holding) <= Cardinality(Workers) + 1
  /\ \A b \in Packets :
       Cardinality({i \in 1..Len(workQueue) : workQueue[i] = b})
         + Cardinality({i \in 1..Len(retryQueue) : retryQueue[i] = b})
         + Cardinality({t \in Tasks : task[t].pkt = b}) <= 1
  /\ Len(workQueue) + Len(retryQueue) + Cardinality(Holding)
       <= 2 * QueueSize + Cardinality(Workers) + 1

\* both queues are full and the worker and the retryWorker hold a packet
\* each: the bound is attained
C36_Witness ==
  /\ Len(workQueue) = QueueSize
  /\ Len(retryQueue) = QueueSize
  /\ Holding = Tasks

\* C37: every packet on retryQueue, and every packet the retryWorker has
\* taken from it, carries a retry count in 1..maxRetries: the one the engine
\* wrote when it queued the packet, whatever the producer had put there.  So
\* the retryWorker reads the count it was given plus one, and a packet whose
\* attempt with count maxRetries fails is dropped, not queued again.
C37_RetryCountStamped ==
  /\ [](\A b \in 1..NumPackets :
          (b \in Range(retryQueue) \/ task[Pacer].pkt = b) =>
            retryCount[b] \in 1..MaxRetries)
  /\ [][\A t \in Tasks :
          LET b == task[t].pkt
          IN  /\ (retryQueue' # retryQueue /\ Len(retryQueue') > Len(retryQueue)
                    /\ task[t].pc = "failed" /\ task'[t].pc # "failed") =>
                   /\ retryQueue' = Append(retryQueue, b)
                   /\ retryCount'[b] = task[t].rc + 1
              /\ (t = Pacer /\ task[t].pc = "waitTick" /\ task'[t].pc = "process") =>
                   task'[t].rc = retryCount[b]
              /\ (task[t].pc = "failed" /\ task'[t].pc # "failed"
                    /\ task[t].rc = MaxRetries) =>
                   /\ task'[t].pc = "dropInc"
                   /\ b \notin Range(retryQueue')]_vars

\* the packet that arrived with the producer's retryCount is on retryQueue
\* for its last retry
C37_Witness ==
  /\ 1 \in Range(retryQueue)
  /\ retryCount[1] = MaxRetries
  /\ hist[1].attempts = MaxRetries

\* C38: with no EnqueuePacket call made once Stop has been called, nothing is
\* ever sent on a closed queue.  Stop closes workQueue and retryQueue only
\* when every worker and the retryWorker have exited; the queues are closed
\* only by Stop; and every step that places a packet on either queue is taken
\* while they are still open, the sends to retryQueue by a task that has not
\* exited.
C38_NoSendOnClosed ==
  /\ [](stop = "done" => \A t \in 0..MaxWorkers : t \in DOMAIN task => task[t].pc = "exited")
  /\ [][/\ (stop # "done" /\ stop' = "done") =>
             /\ stop = "wait"
             /\ \A t \in Tasks : task[t].pc = "exited"
        /\ stop = "done" => stop' = "done"
        /\ (\E b \in Packets : workQueue' = Append(workQueue, b)) =>
             /\ stop = "idle"
             /\ \E b \in Packets : enq[b] = "idle" /\ enq'[b] = "admit"
        /\ (\E b \in Packets : retryQueue' = Append(retryQueue, b)) =>
             /\ stop # "done"
             /\ \E t \in Tasks : task[t].pc = "failed" /\ task'[t].pc = "select"]_vars

\* Stop has returned with the queues closed, after every packet was offered
\* and a task had sent one to retryQueue, where it was left
C38_Witness ==
  /\ stop = "done"
  /\ retryQueue # <<>>
  /\ \E b \in Range(retryQueue) : hist[b].attempts >= 1
  /\ \A b \in Packets : enq[b] # "idle"

\* C39: once Stop has returned, no forward is in progress and none is started
\* again, and totalSent, totalDropped and the per-analyzer counts keep their
\* values for ever.
C39_FrozenAfterStop ==
  /\ [](stop = "done" => \A t \in 0..MaxWorkers : t \in DOMAIN task => ~Attempting(t))
  /\ [][stop = "done" =>
          /\ \A t \in Tasks : Attempting(t)' = Attempting(t)
          /\ metrics'.sent = metrics.sent
          /\ metrics'.dropped = metrics.dropped
          /\ metrics'.byAnalyzer = metrics.byAnalyzer]_vars

\* h is at a Lock / RLock of mutex l and does not have it
Waiting(h, l) == Wants(h) # <<>> /\ Wants(h)[1] = l /\ ~Holds(h, l)

\* C40: the engine and the pool never deadlock.  Nobody waits for ever for the
\* pool mutex or the metrics mutex, nobody holds one for ever, and in the
\* started engine no packet sits on workQueue or on retryQueue for ever: a
\* worker or the retryWorker takes it.
C40_NoDeadlock ==
  /\ \A h \in Holders :
       /\ []<>~Waiting(h, "pool")
       /\ []<>~Waiting(h, "metrics")
       /\ []<>~Holds(h, "pool")
       /\ []<>~Holds(h, "metrics")
  /\ \A b \in 1..NumPackets :
       /\ []<>~(started /\ b \in Range(workQueue))
       /\ []<>~(started /\ b \in Range(retryQueue))

\* a probe waits for the pool mutex while a task holds it
C40_Witness ==
  /\ \E pr \in probes : Waiting(OfProbe(pr), "pool")
  /\ \E t \in Tasks : Holds(OfTask(t), "pool")

====
